---- MODULE Spec2Model ----
(***************************************************************************)
(* FNFTpy: the Python binding of the FNFT nonlinear Fourier transform      *)
(* library.                                                                *)
(*                                                                         *)
(* Part I models FNFTpy/fnft_kdvv_wrapper.py: kdvv and kdvv_wrapper as a   *)
(* state machine over a heap of numpy/ctypes objects, one program counter  *)
(* per call, so that two calls can be interleaved.                         *)
(* Part II models testfunctions/nsev_tests.py: the harness that sweeps the *)
(* dst / cst switches of nsev and compares against its expectation table.  *)
(* nsev itself and the native transform are not part of the sources; they  *)
(* are modelled from the design document.                                  *)
(***************************************************************************)
EXTENDS Integers, Sequences, FiniteSets, TLC

VARIABLES
    pc,       \* pc[p]: where call p stands
    input,    \* input[p]: what the caller passed (never changes)
    args,     \* args[p]: the parameters of kdvv_wrapper
    loc,      \* loc[p]: the locals of kdvv_wrapper
    heap,     \* object id -> value of the array / struct
    rdict,    \* rdict[p]: the dictionary returned
    exc,      \* exc[p]: the exception that left the call, "" if none
    invoked,  \* invoked[p]: how often call p entered the native transform
    clib_rv,  \* clib_rv[p]: the status the native transform handed back
    tpc,      \* where NsevDstCstInputTest stands
    loop_i,   \* the position of the running for-loop of setUp
    res,      \* the dictionary res of setUp
    verdict,  \* key -> outcome of the subTest of test_dst_cst_variation
    ncall,    \* the nsev call in progress: its state and resolved switches
    cand,     \* the candidate roots of the discrete-spectrum search
    bound_states,      \* accepted roots, in acceptance order
    normconsts,        \* norming constants paired with bound_states
    residues,          \* residues paired with bound_states
    bound_states_num,  \* the reported number of bound states
    tmpres    \* the dictionary the nsev call returned

kvars == <<pc, input, args, loc, heap, rdict, exc, invoked, clib_rv>>
nvars == <<tpc, loop_i, res, verdict, ncall, cand, bound_states, normconsts,
           residues, bound_states_num, tmpres>>
vars == <<kvars, nvars>>

----------------------------------------------------------------------------
(* Bounds of the model *)

MaxD == 2
MaxT == 2
MaxM == 2

(* Program constants *)

DefaultXi1 == -2
DefaultXi2 == 2
DefaultDis == 17

Calls == {1, 2}

SampleVals == {1, 2}
TimeVals == {0, 1, 2}
XiPairs == {<<DefaultXi1, DefaultXi2>>, <<DefaultXi2, DefaultXi2>>,
            <<DefaultXi2, DefaultXi1>>}
\* dis=None is the empty sequence, dis=d the sequence <<d>>
DisVals == {<<>>, <<0>>}

SeqsUpTo(S, n) == UNION {[1..k -> S] : k \in 0..n}

----------------------------------------------------------------------------
(* numpy / ctypes helpers *)

\* ctypes.c_uint(x).value: no overflow check, a negative x wraps to 2^32 + x.
\* That value is beyond the model checker's integers and is kept symbolically;
\* the calls modelled have 0 <= D, and a negative M raises before kdvv_M is used.
ctypes_uint(x) == IF x >= 0 THEN x ELSE <<"2^32+", x>>

\* np.zeros(n, dtype=numpy_complex); a negative n raises ValueError
np_zeros_complex(n) == [k \in 1..n |-> <<0, 0>>]

\* np.zeros(2, dtype=numpy_double)
np_zeros_double(n) == [k \in 1..n |-> 0]

\* x + 0.0j : a real sample becomes the complex pair <<re, im>>
to_complex(x) == <<x, 0>>

RECURSIVE np_min_from(_, _, _)
np_min_from(s, k, acc) ==
    IF k > Len(s) THEN acc
    ELSE np_min_from(s, k + 1, IF s[k] < acc THEN s[k] ELSE acc)

\* faulty variant: T1 taken as tvec[0] instead of the minimum
np_min_first(s) == s[1]

\* np.min(tvec) for a non-empty tvec
np_min(s) == np_min_from(s, 2, s[1])

RECURSIVE np_max_from(_, _, _)
np_max_from(s, k, acc) ==
    IF k > Len(s) THEN acc
    ELSE np_max_from(s, k + 1, IF s[k] > acc THEN s[k] ELSE acc)

\* np.max(tvec) for a non-empty tvec
np_max(s) == np_max_from(s, 2, s[1])

\* dst[:] = src[:] with numpy broadcasting: equal lengths copy element by
\* element, a source of length 1 fills the destination, anything else raises
\* faulty variant: the copy also refuses D < 2
CanAssignSliceChecked(dstLen, src) ==
    (Len(src) = dstLen \/ Len(src) = 1) /\ dstLen >= 2

CanAssignSlice(dstLen, src) == Len(src) = dstLen \/ Len(src) = 1

AssignSlice(dstLen, src) ==
    [k \in 1..dstLen |-> to_complex(IF Len(src) = dstLen THEN src[k] ELSE src[1])]

\* a new object gets an id no live object has
NewRef(h) ==
    (CHOOSE m \in DOMAIN h : \A x \in DOMAIN h : x <= m) + 1

Put(h, r, v) == [x \in DOMAIN h \cup {r} |-> IF x = r THEN v ELSE h[x]]

\* faulty variant: a module-level buffer, the same object for every call
shared_cont_ref(h) == -1

\* kdvv_cont = np.zeros(M, ...) is an object of the call's own
fresh_cont_ref(h) == NewRef(h)

----------------------------------------------------------------------------
(* Collaborators outside the two source files *)

\* get_kdvv_options(dis=dis): the KdvvOptionsStruct with defaults resolved
get_kdvv_options(dis) ==
    [discretization |-> IF dis = <<>> THEN DefaultDis ELSE dis[1]]

\* repr(options): a rendering of the struct, not the struct
repr_options(o) == <<"KdvvOptionsStruct", "discretization", o.discretization>>

RECURSIVE SumAbs(_, _)
SumAbs(u, k) == IF k > Len(u) THEN 0 ELSE u[k][1] + u[k][2] + SumAbs(u, k + 1)

\* the propagation leaves the floating range once the samples add up to this
OverflowAt == 4

RECURSIVE SampleDigest(_, _)
SampleDigest(u, k) ==
    IF k > Len(u) THEN 0 ELSE k * u[k][1] + u[k][2] + SampleDigest(u, k + 1)

\* the status of the native transform: 0, the code of the first validation
\* that fails (D >= 2, T1 < T2, Xi1 < Xi2, M >= 1), or numerical overflow
fnft_kdvv_status(D, u, T, M, Xi) ==
    IF D < 2 THEN 1
    ELSE IF ~(T[1] < T[2]) THEN 2
    ELSE IF ~(Xi[1] < Xi[2]) THEN 3
    ELSE IF M < 1 THEN 4
    ELSE IF SumAbs(u, 1) >= OverflowAt THEN 5
    ELSE 0

\* continuous spectrum at grid point k: a value fixed by all the inputs
fnft_kdvv_point(k, u, T, Xi, o) ==
    <<100 * k + SampleDigest(u, 1),
      100 * o.discretization + 10 * (T[2] - T[1]) + (Xi[2] - Xi[1])>>

\* fnft_kdvv(D, u, T, M, cont, Xi, NULL, NULL, NULL, &options): returns the
\* status and fills the caller's cont buffer in place, M entries, on success
fnft_kdvv(D, u, T, M, cont, Xi, o) ==
    LET rv == fnft_kdvv_status(D, u, T, M, Xi)
    IN  [rv   |-> rv,
         cont |-> IF rv # 0 THEN cont
                  ELSE [k \in 1..Len(cont) |->
                          IF k <= M THEN fnft_kdvv_point(k, u, T, Xi, o)
                          ELSE cont[k]]]

----------------------------------------------------------------------------
(* kdvv and kdvv_wrapper *)

NoArgs == [D |-> 0, u |-> 0, T1 |-> 0, T2 |-> 0, M |-> 0, Xi1 |-> 0,
           Xi2 |-> 0, K |-> 0, options |-> 0]
NoLoc == [clib_kdvv_func |-> 0, kdvv_D |-> 0, kdvv_u |-> 0, kdvv_T |-> 0,
          kdvv_M |-> 0, kdvv_cont |-> 0, kdvv_Xi |-> 0, native |-> <<>>,
          rv |-> 0]
NoDict == [x \in {} |-> 0]
NoInput == [entry |-> "none", u |-> 0, u_val |-> <<>>, tvec |-> <<>>,
            M |-> 0, Xi1 |-> 0, Xi2 |-> 0, dis |-> <<>>,
            D |-> 0, T1 |-> 0, T2 |-> 0, K |-> 0, options |-> 0]

URef(p) == p
OptRef(p) == Cardinality(Calls) + p

\* the calls of kdvv(u, tvec, M, Xi1, Xi2, dis)
KdvvInputs(p, us, tvecs, ms, xis, diss) ==
    {[entry |-> "kdvv", u |-> URef(p), u_val |-> u, tvec |-> t, M |-> m,
      Xi1 |-> x[1], Xi2 |-> x[2], dis |-> d,
      D |-> 0, T1 |-> 0, T2 |-> 0, K |-> 0, options |-> 0] :
        u \in us, t \in tvecs, m \in ms, x \in xis, d \in diss}

\* the calls of kdvv_wrapper(D, u, T1, T2, M, Xi1, Xi2, K, options)
WrapperInputs(p, ds, us, ts, ms, xis, diss) ==
    {[entry |-> "kdvv_wrapper", u |-> URef(p), u_val |-> u, tvec |-> <<>>,
      M |-> m, Xi1 |-> x[1], Xi2 |-> x[2], dis |-> d,
      D |-> n, T1 |-> t[1], T2 |-> t[2], K |-> 0, options |-> OptRef(p)] :
        n \in ds, u \in us, t \in ts, m \in ms, x \in xis, d \in diss}

\* the caller's objects: its u array and, for kdvv_wrapper, its options
InitHeap(inp) ==
    LET us == {URef(p) : p \in {q \in Calls : inp[q].entry # "none"}}
        os == {OptRef(p) : p \in {q \in Calls : inp[q].entry = "kdvv_wrapper"}}
    IN  [r \in us \cup os |->
            IF r \in us THEN inp[r].u_val
            ELSE get_kdvv_options(inp[r - Cardinality(Calls)].dis)]

KInitWith(inp) ==
    /\ input = inp
    /\ pc = [p \in Calls |->
               IF inp[p].entry = "kdvv" THEN "kdvv"
               ELSE IF inp[p].entry = "kdvv_wrapper" THEN "wrapper"
               ELSE "none"]
    /\ args = [p \in Calls |->
               IF inp[p].entry = "kdvv_wrapper"
               THEN [D |-> inp[p].D, u |-> inp[p].u, T1 |-> inp[p].T1,
                     T2 |-> inp[p].T2, M |-> inp[p].M, Xi1 |-> inp[p].Xi1,
                     Xi2 |-> inp[p].Xi2, K |-> inp[p].K,
                     options |-> inp[p].options]
               ELSE NoArgs]
    /\ loc = [p \in Calls |-> NoLoc]
    /\ heap = InitHeap(inp)
    /\ rdict = [p \in Calls |-> NoDict]
    /\ exc = [p \in Calls |-> ""]
    /\ invoked = [p \in Calls |-> 0]
    /\ clib_rv = [p \in Calls |-> 0]

Raise(p, e) ==
    /\ pc' = [pc EXCEPT ![p] = "raised"]
    /\ exc' = [exc EXCEPT ![p] = e]

\* kdvv, lines 59-65
kdvv(p) ==
    /\ pc[p] = "kdvv"
    /\ IF Len(input[p].tvec) = 0
       THEN /\ Raise(p, "ValueError")
            /\ UNCHANGED <<args, heap>>
       ELSE LET o == NewRef(heap)
            IN  /\ heap' = Put(heap, o, get_kdvv_options(input[p].dis))
                /\ args' = [args EXCEPT ![p] =
                       [D |-> Len(heap[input[p].u]),
                        u |-> input[p].u,
                        T1 |-> np_min(input[p].tvec),
                        T2 |-> np_max(input[p].tvec),
                        M |-> input[p].M,
                        Xi1 |-> input[p].Xi1,
                        Xi2 |-> input[p].Xi2,
                        K |-> 0,
                        options |-> o]]
                /\ pc' = [pc EXCEPT ![p] = "wrapper"]
                /\ exc' = exc
    /\ UNCHANGED <<input, loc, rdict, invoked, clib_rv>>
    /\ UNCHANGED nvars

\* lines 122-136: the ten argument types of fnft_kdvv
KdvvArgtypes ==
    <<"c_uint", "ndpointer(complex)", "ndpointer(double)", "c_uint",
      "ndpointer(complex)", "ndpointer(double)", "POINTER(c_int)",
      "POINTER(c_int)", "POINTER(c_int)", "POINTER(KdvvOptionsStruct)">>

\* kdvv_wrapper, lines 102-107: the function object of a CDLL instance of
\* the call's own, kdvv_D, kdvv_u and the copy of u into it
wrapper_copy_u(p) ==
    /\ pc[p] = "wrapper"
    /\ LET f  == NewRef(heap)
           h0 == Put(heap, f, [restype |-> "ctypes_int", argtypes |-> <<>>])
           n  == ctypes_uint(args[p].D)
           r  == NewRef(h0)
       IN  /\ loc' = [loc EXCEPT ![p].clib_kdvv_func = f,
                                 ![p].kdvv_D = n, ![p].kdvv_u = r]
           /\ IF CanAssignSlice(n, heap[args[p].u])
              THEN /\ heap' = Put(h0, r, AssignSlice(n, heap[args[p].u]))
                   /\ pc' = [pc EXCEPT ![p] = "alloc"]
                   /\ exc' = exc
              ELSE /\ heap' = Put(h0, r, np_zeros_complex(n))
                   /\ Raise(p, "ValueError")
    /\ UNCHANGED <<input, args, rdict, invoked, clib_rv>>
    /\ UNCHANGED nvars

\* faulty variant: cont sized by D instead of M
kdvv_cont_init_D(a) == np_zeros_complex(ctypes_uint(a.D))

\* line 112: kdvv_cont = np.zeros(M, dtype=numpy_complex)
kdvv_cont_init(a) == np_zeros_complex(a.M)

\* kdvv_wrapper, lines 108-121: kdvv_T, kdvv_M, kdvv_cont, kdvv_Xi
wrapper_alloc(p) ==
    /\ pc[p] = "alloc"
    /\ LET t  == NewRef(heap)
           h1 == Put(heap, t, <<args[p].T1, args[p].T2>>)
           c  == fresh_cont_ref(h1)
           h2 == Put(h1, c, kdvv_cont_init(args[p]))
           x  == NewRef(h2)
           h3 == Put(h2, x, <<args[p].Xi1, args[p].Xi2>>)
       IN  IF args[p].M < 0
           THEN /\ heap' = h1
                /\ loc' = [loc EXCEPT ![p].kdvv_T = t,
                                      ![p].kdvv_M = ctypes_uint(args[p].M)]
                /\ Raise(p, "ValueError")
           ELSE /\ heap' = h3
                /\ loc' = [loc EXCEPT ![p].kdvv_T = t,
                                      ![p].kdvv_M = ctypes_uint(args[p].M),
                                      ![p].kdvv_cont = c,
                                      ![p].kdvv_Xi = x]
                /\ pc' = [pc EXCEPT ![p] = "call"]
                /\ exc' = exc
    /\ UNCHANGED <<input, args, rdict, invoked, clib_rv>>
    /\ UNCHANGED nvars

\* kdvv_wrapper, lines 122-147: argtypes are set and the native transform is
\* entered; it reads its input buffers while the interpreter lock is released
wrapper_call_enter(p) ==
    /\ pc[p] = "call"
    /\ heap' = [heap EXCEPT ![loc[p].clib_kdvv_func].argtypes = KdvvArgtypes]
    /\ loc' = [loc EXCEPT ![p].native =
                  [u |-> heap[loc[p].kdvv_u], T |-> heap[loc[p].kdvv_T],
                   Xi |-> heap[loc[p].kdvv_Xi], o |-> heap[args[p].options]]]
    /\ invoked' = [invoked EXCEPT ![p] = @ + 1]
    /\ pc' = [pc EXCEPT ![p] = "incall"]
    /\ UNCHANGED <<input, args, rdict, exc, clib_rv>>
    /\ UNCHANGED nvars

\* kdvv_wrapper, lines 137-147: the native transform writes cont and hands
\* back its status
wrapper_call_exit(p) ==
    /\ pc[p] = "incall"
    /\ LET out == fnft_kdvv(loc[p].kdvv_D, loc[p].native.u, loc[p].native.T,
                            loc[p].kdvv_M, heap[loc[p].kdvv_cont],
                            loc[p].native.Xi, loc[p].native.o)
       IN  /\ heap' = [heap EXCEPT ![loc[p].kdvv_cont] = out.cont]
           /\ loc' = [loc EXCEPT ![p].rv = out.rv]
           /\ clib_rv' = [clib_rv EXCEPT ![p] = out.rv]
    /\ pc' = [pc EXCEPT ![p] = "ret"]
    /\ UNCHANGED <<input, args, rdict, exc, invoked>>
    /\ UNCHANGED nvars

\* faulty variant: the status is dropped
make_rdict_swallow(rv, cont, options) ==
    [return_value |-> 0, cont |-> cont, options |-> options]

\* line 148: rdict = {'return_value': rv, 'cont': kdvv_cont, 'options': ...}
make_rdict(rv, cont, options) ==
    [return_value |-> rv, cont |-> cont, options |-> options]

\* kdvv_wrapper, lines 148-149
wrapper_return(p) ==
    /\ pc[p] = "ret"
    /\ rdict' = [rdict EXCEPT ![p] =
           make_rdict(loc[p].rv, loc[p].kdvv_cont,
                      repr_options(heap[args[p].options]))]
    /\ pc' = [pc EXCEPT ![p] = "returned"]
    /\ UNCHANGED <<input, args, loc, heap, exc, invoked, clib_rv>>
    /\ UNCHANGED nvars

KNext ==
    \E p \in Calls :
        \/ kdvv(p)
        \/ wrapper_copy_u(p)
        \/ wrapper_alloc(p)
        \/ wrapper_call_enter(p)
        \/ wrapper_call_exit(p)
        \/ wrapper_return(p)

----------------------------------------------------------------------------
(* nsev and the discrete-spectrum search behind it.  Neither is among the  *)
(* source files; both follow the design document (sections 3, 4.4, 4.5, 6  *)
(* and 8).                                                                  *)

MaxCand == 2

\* refined locations: -1 lies outside the upper half-plane, 1 and 2 inside
RootVals == {-1, 1, 2}

Range(s) == {s[k] : k \in DOMAIN s}

Merge(a, b) ==
    [k \in DOMAIN a \cup DOMAIN b |-> IF k \in DOMAIN b THEN b[k] ELSE a[k]]

\* get_nsev_options(dst=..., cst=...): unset switches take the defaults,
\* norming constants and reflection coefficient
get_nsev_options(dst, cst) ==
    [discspec_type |-> IF dst = <<>> THEN 0 ELSE dst[1],
     contspec_type |-> IF cst = <<>> THEN 0 ELSE cst[1]]

\* validation of the orchestration layer: D >= 2 and T1 < T2
nsev_status(D, T1, T2) == IF D < 2 \/ ~(T1 < T2) THEN 1 ELSE 0

NormingConstant(root) == <<"b/a'", root>>
Residue(root) == <<"res", root>>

\* discrete-spectrum type: 0 norming constants, 1 residues, 2 both;
\* any other value computes no discrete spectrum
WantsNorm(dst) == dst \in {0, 2}
WantsRes(dst) == dst \in {1, 2}
WantsDisc(dst) == WantsNorm(dst) \/ WantsRes(dst)
\* continuous-spectrum type: 0 reflection, 1 a and b, 2 both
WantsRef(cst) == cst \in {0, 2}
WantsAB(cst) == cst \in {1, 2}

\* faulty variant: with both outputs requested the norming constant is not stored
solver_accept_unpaired(S, root, dst) ==
    [bs |-> Append(S.bs, root),
     nc |-> IF dst = 0 THEN Append(S.nc, NormingConstant(root)) ELSE S.nc,
     rs |-> IF WantsRes(dst) THEN Append(S.rs, Residue(root)) ELSE S.rs,
     num |-> S.num + 1]

\* Refined -> Accepted: the root and its paired values are stored together
solver_accept(S, root, dst) ==
    [bs |-> Append(S.bs, root),
     nc |-> IF WantsNorm(dst) THEN Append(S.nc, NormingConstant(root)) ELSE S.nc,
     rs |-> IF WantsRes(dst) THEN Append(S.rs, Residue(root)) ELSE S.rs,
     num |-> S.num + 1]

\* the result record: the status and only the outputs that were requested
nsev_rdict(status, dst, cst, S, M) ==
    Merge([return_value |-> status],
    Merge(IF WantsDisc(dst)
          THEN [bound_states_num |-> S.num, bound_states |-> S.bs] ELSE <<>>,
    Merge(IF WantsNorm(dst) THEN [disc_norm |-> S.nc] ELSE <<>>,
    Merge(IF WantsRes(dst) THEN [disc_res |-> S.rs] ELSE <<>>,
    Merge(IF WantsRef(cst) THEN [cont_ref |-> [k \in 1..M |-> <<"rho", k>>]]
          ELSE <<>>,
          IF WantsAB(cst) THEN [cont_a |-> [k \in 1..M |-> <<"a", k>>],
                                cont_b |-> [k \in 1..M |-> <<"b", k>>]]
          ELSE <<>>)))))

SolverState ==
    [bs |-> bound_states, nc |-> normconsts, rs |-> residues,
     num |-> bound_states_num]

\* nsev(q, tvec, dst=..., cst=...) up to the start of the root search; n is
\* the number of candidates the coarse localization will come up with
nsev_begin(dst, cst, n) ==
    LET o == get_nsev_options(dst, cst)
    IN  /\ ncall' = [st |-> "running", dst_arg |-> dst, cst_arg |-> cst,
                     dst |-> o.discspec_type, cst |-> o.contspec_type]
        /\ cand' = IF WantsDisc(o.discspec_type)
                   THEN [k \in 1..n |-> [st |-> "Unsearched", root |-> 0]]
                   ELSE <<>>
        /\ bound_states' = <<>>
        /\ normconsts' = <<>>
        /\ residues' = <<>>
        /\ bound_states_num' = 0
        /\ tmpres' = <<>>

SolverFrame == UNCHANGED <<tpc, loop_i, res, verdict, ncall, tmpres>>

\* Unsearched -> Candidate
Localize(k) ==
    /\ ncall.st = "running"
    /\ cand[k].st = "Unsearched"
    /\ cand' = [cand EXCEPT ![k].st = "Candidate"]
    /\ UNCHANGED <<bound_states, normconsts, residues, bound_states_num>>
    /\ SolverFrame
    /\ UNCHANGED kvars

\* Candidate -> Refined: the iteration converges to r
RefineConverge(k, r) ==
    /\ ncall.st = "running"
    /\ cand[k].st = "Candidate"
    /\ cand' = [cand EXCEPT ![k] = [st |-> "Refined", root |-> r]]
    /\ UNCHANGED <<bound_states, normconsts, residues, bound_states_num>>
    /\ SolverFrame
    /\ UNCHANGED kvars

\* Candidate -> Rejected: no convergence within the iteration bound
RefineDiverge(k) ==
    /\ ncall.st = "running"
    /\ cand[k].st = "Candidate"
    /\ cand' = [cand EXCEPT ![k].st = "Rejected"]
    /\ UNCHANGED <<bound_states, normconsts, residues, bound_states_num>>
    /\ SolverFrame
    /\ UNCHANGED kvars

Acceptable(root) == root > 0 /\ root \notin Range(bound_states)

\* Refined -> Accepted
Accept(k) ==
    /\ ncall.st = "running"
    /\ cand[k].st = "Refined"
    /\ Acceptable(cand[k].root)
    /\ cand' = [cand EXCEPT ![k].st = "Accepted"]
    /\ LET S == solver_accept(SolverState, cand[k].root, ncall.dst)
       IN  /\ bound_states' = S.bs
           /\ normconsts' = S.nc
           /\ residues' = S.rs
           /\ bound_states_num' = S.num
    /\ SolverFrame
    /\ UNCHANGED kvars

\* Refined -> Rejected: outside the half-plane, or a duplicate
Reject(k) ==
    /\ ncall.st = "running"
    /\ cand[k].st = "Refined"
    /\ ~Acceptable(cand[k].root)
    /\ cand' = [cand EXCEPT ![k].st = "Rejected"]
    /\ UNCHANGED <<bound_states, normconsts, residues, bound_states_num>>
    /\ SolverFrame
    /\ UNCHANGED kvars

----------------------------------------------------------------------------
(* testfunctions/nsev_tests.py: NsevDstCstInputTest *)

TestD == 256
TestT1 == -1
TestT2 == 1

DstSweep == <<-1, 0, 1, 2, 3>>
CstSweep == <<-1, 0, 1, 2, 3>>

\* 'dst=%d' % dst and 'cst=%d' % cst
dst_key(d) == "dst=" \o ToString(d)
cst_key(c) == "cst=" \o ToString(c)
both_key == "dst=3cst=3"

HasKey(r, k) == k \in DOMAIN r

\* faulty variant: the two membership tests in the other order
dst_probe_swapped(r) ==
    <<r.return_value = 0, HasKey(r, "disc_norm"), HasKey(r, "disc_res")>>

\* lines 81-83
dst_probe(r) ==
    <<r.return_value = 0, HasKey(r, "disc_res"), HasKey(r, "disc_norm")>>

\* faulty variant: cont_a tested where cont_ref belongs
cst_probe_ab_swapped(r) ==
    <<r.return_value = 0, HasKey(r, "cont_a"), HasKey(r, "cont_ref"),
      HasKey(r, "cont_b")>>

\* lines 87-91
cst_probe(r) ==
    <<r.return_value = 0, HasKey(r, "cont_ref"), HasKey(r, "cont_a"),
      HasKey(r, "cont_b")>>

\* lines 94-100
both_probe(r) ==
    <<r.return_value = 0, HasKey(r, "disc_res"), HasKey(r, "disc_norm"),
      HasKey(r, "cont_ref"), HasKey(r, "cont_a"), HasKey(r, "cont_b")>>

\* faulty variant: the row of dst=1 expects disc_norm
expected_norm_at_1 ==
    ("dst=-1" :> <<TRUE, FALSE, FALSE>>) @@
    ("dst=0" :> <<TRUE, FALSE, TRUE>>) @@
    ("dst=1" :> <<TRUE, FALSE, TRUE>>) @@
    ("dst=2" :> <<TRUE, TRUE, TRUE>>) @@
    ("dst=3" :> <<TRUE, FALSE, FALSE>>) @@
    ("cst=-1" :> <<TRUE, FALSE, FALSE, FALSE>>) @@
    ("cst=0" :> <<TRUE, TRUE, FALSE, FALSE>>) @@
    ("cst=1" :> <<TRUE, FALSE, TRUE, TRUE>>) @@
    ("cst=2" :> <<TRUE, TRUE, TRUE, TRUE>>) @@
    ("cst=3" :> <<TRUE, FALSE, FALSE, FALSE>>) @@
    ("dst=3cst=3" :> <<TRUE, FALSE, FALSE, FALSE, FALSE, FALSE>>)

\* faulty variant: the row of dst=3cst=3 expects the discrete outputs
expected_both_populated ==
    ("dst=-1" :> <<TRUE, FALSE, FALSE>>) @@
    ("dst=0" :> <<TRUE, FALSE, TRUE>>) @@
    ("dst=1" :> <<TRUE, TRUE, FALSE>>) @@
    ("dst=2" :> <<TRUE, TRUE, TRUE>>) @@
    ("dst=3" :> <<TRUE, FALSE, FALSE>>) @@
    ("cst=-1" :> <<TRUE, FALSE, FALSE, FALSE>>) @@
    ("cst=0" :> <<TRUE, TRUE, FALSE, FALSE>>) @@
    ("cst=1" :> <<TRUE, FALSE, TRUE, TRUE>>) @@
    ("cst=2" :> <<TRUE, TRUE, TRUE, TRUE>>) @@
    ("cst=3" :> <<TRUE, FALSE, FALSE, FALSE>>) @@
    ("dst=3cst=3" :> <<TRUE, FALSE, TRUE, TRUE, FALSE, FALSE>>)

\* lines 104-114
expected ==
    ("dst=-1" :> <<TRUE, FALSE, FALSE>>) @@
    ("dst=0" :> <<TRUE, FALSE, TRUE>>) @@
    ("dst=1" :> <<TRUE, TRUE, FALSE>>) @@
    ("dst=2" :> <<TRUE, TRUE, TRUE>>) @@
    ("dst=3" :> <<TRUE, FALSE, FALSE>>) @@
    ("cst=-1" :> <<TRUE, FALSE, FALSE, FALSE>>) @@
    ("cst=0" :> <<TRUE, TRUE, FALSE, FALSE>>) @@
    ("cst=1" :> <<TRUE, FALSE, TRUE, TRUE>>) @@
    ("cst=2" :> <<TRUE, TRUE, TRUE, TRUE>>) @@
    ("cst=3" :> <<TRUE, FALSE, FALSE, FALSE>>) @@
    ("dst=3cst=3" :> <<TRUE, FALSE, FALSE, FALSE, FALSE, FALSE>>)

\* check_boolarray(value, expected): the same length and the same entries
check_boolarray(a, b) ==
    Len(a) = Len(b) /\ \A k \in 1..Len(a) : a[k] = b[k]

\* setUp, lines 80, 86 and 93: the call of nsev; the root search then runs
setUp_call ==
    /\ tpc \in {"dst_loop", "cst_loop", "both"}
    /\ ncall.st = "idle"
    /\ \E n \in 0..MaxCand :
          CASE tpc = "dst_loop" -> nsev_begin(<<DstSweep[loop_i]>>, <<>>, n)
            [] tpc = "cst_loop" -> nsev_begin(<<>>, <<CstSweep[loop_i]>>, n)
            [] tpc = "both" -> nsev_begin(<<3>>, <<3>>, n)
    /\ UNCHANGED <<tpc, loop_i, res, verdict>>
    /\ UNCHANGED kvars

\* nsev returns once every candidate is Accepted or Rejected
nsev_return ==
    /\ ncall.st = "running"
    /\ \A k \in DOMAIN cand : cand[k].st \in {"Accepted", "Rejected"}
    /\ tmpres' = nsev_rdict(nsev_status(TestD, TestT1, TestT2), ncall.dst,
                            ncall.cst, SolverState, MaxM)
    /\ ncall' = [ncall EXCEPT !.st = "returned"]
    /\ UNCHANGED <<tpc, loop_i, res, verdict, cand, bound_states, normconsts,
                   residues, bound_states_num>>
    /\ UNCHANGED kvars

\* setUp, lines 81-83, 87-91 and 94-101: res[key] and the loop control
setUp_record ==
    /\ tpc \in {"dst_loop", "cst_loop", "both"}
    /\ ncall.st = "returned"
    /\ CASE tpc = "dst_loop" ->
             /\ res' = Put(res, dst_key(DstSweep[loop_i]), dst_probe(tmpres))
             /\ IF loop_i < Len(DstSweep)
                THEN loop_i' = loop_i + 1 /\ tpc' = tpc
                ELSE loop_i' = 1 /\ tpc' = "cst_loop"
         [] tpc = "cst_loop" ->
             /\ res' = Put(res, cst_key(CstSweep[loop_i]), cst_probe(tmpres))
             /\ IF loop_i < Len(CstSweep)
                THEN loop_i' = loop_i + 1 /\ tpc' = tpc
                ELSE loop_i' = 1 /\ tpc' = "both"
         [] tpc = "both" ->
             /\ res' = Put(res, both_key, both_probe(tmpres))
             /\ loop_i' = loop_i
             /\ tpc' = "setup_done"
    /\ ncall' = [ncall EXCEPT !.st = "idle"]
    /\ UNCHANGED <<verdict, cand, bound_states, normconsts, residues,
                   bound_states_num, tmpres>>
    /\ UNCHANGED kvars

\* test_dst_cst_variation, lines 103-117: one subTest per key of expected
test_dst_cst_variation ==
    /\ tpc = "setup_done"
    /\ verdict' = [k \in DOMAIN expected |->
                     IF HasKey(res, k) /\ check_boolarray(res[k], expected[k])
                     THEN "pass" ELSE "fail"]
    /\ tpc' = "tested"
    /\ UNCHANGED <<loop_i, res, ncall, cand, bound_states, normconsts,
                   residues, bound_states_num, tmpres>>
    /\ UNCHANGED kvars

NNext ==
    \/ setUp_call
    \/ \E k \in DOMAIN cand : Localize(k)
    \/ \E k \in DOMAIN cand : \E r \in RootVals : RefineConverge(k, r)
    \/ \E k \in DOMAIN cand : RefineDiverge(k)
    \/ \E k \in DOMAIN cand : Accept(k)
    \/ \E k \in DOMAIN cand : Reject(k)
    \/ nsev_return
    \/ setUp_record
    \/ test_dst_cst_variation

----------------------------------------------------------------------------
(* Specifications *)

NInitAt(t) ==
    /\ tpc = t
    /\ loop_i = 1
    /\ res = <<>>
    /\ verdict = <<>>
    /\ ncall = [st |-> "idle", dst_arg |-> <<>>, cst_arg |-> <<>>,
                dst |-> 0, cst |-> 0]
    /\ cand = <<>>
    /\ bound_states = <<>>
    /\ normconsts = <<>>
    /\ residues = <<>>
    /\ bound_states_num = 0
    /\ tmpres = <<>>

\* one call, through either entry point
KInit ==
    \E i \in KdvvInputs(1, SeqsUpTo(SampleVals, MaxD), SeqsUpTo(TimeVals, MaxT),
                        -1..MaxM, XiPairs, DisVals)
           \cup WrapperInputs(1, 0..MaxD, SeqsUpTo(SampleVals, MaxD),
                              TimeVals \X TimeVals, -1..MaxM, XiPairs, DisVals) :
        KInitWith([p \in Calls |-> IF p = 1 THEN i ELSE NoInput])

\* two calls of kdvv at once, each on arrays of its own
ConcInputs(p) ==
    KdvvInputs(p, [1..MaxD -> SampleVals], {<<0, 1>>},
               {1, MaxM}, {<<DefaultXi1, DefaultXi2>>}, DisVals)

InitConc ==
    /\ \E i \in ConcInputs(1) : \E j \in ConcInputs(2) :
          KInitWith([p \in Calls |-> IF p = 1 THEN i ELSE j])
    /\ NInitAt("none")

InitNsev ==
    /\ KInitWith([p \in Calls |-> NoInput])
    /\ NInitAt("dst_loop")

Init ==
    /\ KInit
    /\ NInitAt("none")

Next == KNext

Spec == Init /\ [][Next]_vars

SpecConc == InitConc /\ [][KNext]_vars

SpecNsev == InitNsev /\ [][NNext]_vars

----------------------------------------------------------------------------
(* Properties *)

SetMin(S) == CHOOSE x \in S : \A y \in S : x <= y
SetMax(S) == CHOOSE x \in S : \A y \in S : y <= x

Finished(p) == pc[p] = "returned"

\* the result as the caller reads it: the array behind 'cont', not its id
Observed(p) ==
    [return_value |-> rdict[p].return_value,
     cont |-> heap[rdict[p].cont],
     options |-> rdict[p].options]

\* C1: with cst left at its default, for every dst of -1, 0, 1, 2, 3 the call
\* of nsev returns return_value 0, its result holds 'disc_norm' exactly for
\* dst 0 and 2 and 'disc_res' exactly for dst 1 and 2; the entries setUp
\* records say the same and the subTests of these keys pass.
C1_DstSwitch ==
    /\ (ncall.st = "returned" /\ ncall.cst_arg = <<>> /\ ncall.dst_arg # <<>>) =>
          LET d == ncall.dst_arg[1]
          IN  /\ d \in {-1, 0, 1, 2, 3}
              /\ tmpres.return_value = 0
              /\ HasKey(tmpres, "disc_norm") <=> d \in {0, 2}
              /\ HasKey(tmpres, "disc_res") <=> d \in {1, 2}
    /\ \A d \in {-1, 0, 1, 2, 3} :
          HasKey(res, dst_key(d)) =>
              res[dst_key(d)] = <<TRUE, d \in {1, 2}, d \in {0, 2}>>
    /\ tpc = "tested" =>
          \A d \in {-1, 0, 1, 2, 3} : verdict[dst_key(d)] = "pass"

C1_Witness ==
    /\ tpc = "tested"
    /\ \A d \in {-1, 0, 1, 2, 3} : HasKey(res, dst_key(d))
    /\ res["dst=-1"] = <<TRUE, FALSE, FALSE>>
    /\ res["dst=2"] = <<TRUE, TRUE, TRUE>>

\* C2: with dst left at its default, for every cst of -1, 0, 1, 2, 3 the call
\* of nsev returns return_value 0, its result holds 'cont_ref' exactly for
\* cst 0 and 2, and 'cont_a' and 'cont_b', always both or neither, exactly
\* for cst 1 and 2.
C2_CstSwitch ==
    /\ (ncall.st = "returned" /\ ncall.dst_arg = <<>> /\ ncall.cst_arg # <<>>) =>
          LET c == ncall.cst_arg[1]
          IN  /\ c \in {-1, 0, 1, 2, 3}
              /\ tmpres.return_value = 0
              /\ HasKey(tmpres, "cont_ref") <=> c \in {0, 2}
              /\ HasKey(tmpres, "cont_a") <=> c \in {1, 2}
              /\ HasKey(tmpres, "cont_b") <=> HasKey(tmpres, "cont_a")
    /\ \A c \in {-1, 0, 1, 2, 3} :
          HasKey(res, cst_key(c)) =>
              res[cst_key(c)] = <<TRUE, c \in {0, 2}, c \in {1, 2}, c \in {1, 2}>>
    /\ tpc = "tested" =>
          \A c \in {-1, 0, 1, 2, 3} : verdict[cst_key(c)] = "pass"

C2_Witness ==
    /\ tpc = "tested"
    /\ \A c \in {-1, 0, 1, 2, 3} : HasKey(res, cst_key(c))
    /\ res["cst=1"] = <<TRUE, FALSE, TRUE, TRUE>>
    /\ res["cst=3"] = <<TRUE, FALSE, FALSE, FALSE>>

\* C3: the call of nsev with dst=3 and cst=3 returns status 0 and a result
\* with none of disc_res, disc_norm, cont_ref, cont_a, cont_b.
C3_NothingRequested ==
    /\ (ncall.st = "returned" /\ ncall.dst_arg = <<3>> /\ ncall.cst_arg = <<3>>) =>
          /\ tmpres.return_value = 0
          /\ \A k \in {"disc_res", "disc_norm", "cont_ref", "cont_a", "cont_b"} :
                ~HasKey(tmpres, k)
    /\ HasKey(res, both_key) =>
          res[both_key] = <<TRUE, FALSE, FALSE, FALSE, FALSE, FALSE>>
    /\ tpc = "tested" => verdict[both_key] = "pass"

C3_Witness ==
    /\ ncall.st = "returned"
    /\ ncall.dst_arg = <<3>>
    /\ ncall.cst_arg = <<3>>
    /\ DOMAIN tmpres = {"return_value"}

\* C4 as stated: for dst=1 and for dst=2 the result of nsev holds the norming
\* constants, the key 'disc_norm'.
C4_NormForDst1And2 ==
    (ncall.st = "returned" /\ ncall.dst_arg # <<>> /\ ncall.dst_arg[1] \in {1, 2}) =>
        HasKey(tmpres, "disc_norm")

\* C4 amended: the result of nsev holds the norming constants, 'disc_norm',
\* for dst=0 and dst=2; for dst=1 it holds the residues, 'disc_res', and no
\* 'disc_norm'.  The recorded entries of these three keys say so and their
\* subTests pass.
C4_NormForDst0And2 ==
    /\ (ncall.st = "returned" /\ ncall.dst_arg # <<>>) =>
          /\ ncall.dst_arg[1] \in {0, 2} =>
                HasKey(tmpres, "disc_norm") /\ tmpres.disc_norm = normconsts
          /\ ncall.dst_arg[1] = 1 =>
                ~HasKey(tmpres, "disc_norm") /\ HasKey(tmpres, "disc_res")
    /\ HasKey(res, "dst=0") => res["dst=0"][3]
    /\ HasKey(res, "dst=2") => res["dst=2"][3]
    /\ HasKey(res, "dst=1") => ~res["dst=1"][3] /\ res["dst=1"][2]
    /\ tpc = "tested" =>
          \A k \in {"dst=0", "dst=1", "dst=2"} : verdict[k] = "pass"

C4_Witness ==
    /\ ncall.st = "returned"
    /\ ncall.dst_arg = <<1>>
    /\ HasKey(res, "dst=0")
    /\ HasKey(tmpres, "disc_res")
    /\ ~HasKey(tmpres, "disc_norm")

\* C5: whenever kdvv or kdvv_wrapper returns, the array under 'cont' has
\* exactly M entries, whatever D, the bounds and the status are.
C5_ContHasMEntries ==
    \A p \in Calls :
        Finished(p) => Len(heap[rdict[p].cont]) = input[p].M

C5_Witness ==
    \E p \in Calls :
        /\ Finished(p)
        /\ rdict[p].return_value # 0
        /\ input[p].M = MaxM
        /\ Len(input[p].u_val) # input[p].M
        /\ Len(heap[rdict[p].cont]) = MaxM

\* what the design document asks the orchestration layer to validate
CallD(i) == IF i.entry = "kdvv" THEN Len(i.u_val) ELSE i.D

TimeOrdered(i) ==
    IF i.entry = "kdvv"
    THEN \E a \in Range(i.tvec) : \E b \in Range(i.tvec) : a < b
    ELSE i.T1 < i.T2

ConfigInvalid(i) ==
    CallD(i) < 2 \/ ~TimeOrdered(i) \/ ~(i.Xi1 < i.Xi2) \/ i.M < 1

\* the marshalling itself cannot be done: numpy raises
MarshalError(i) ==
    \/ i.M < 0
    \/ i.entry = "kdvv" /\ i.tvec = <<>>
    \/ i.entry = "kdvv_wrapper" /\ Len(i.u_val) # i.D /\ Len(i.u_val) # 1

\* C6 as stated: a call whose input violates D >= 2, T1 < T2, Xi1 < Xi2 or
\* M >= 1 never reaches the invocation of the transform.
C6_InvalidNeverInvokes ==
    \A p \in Calls : ConfigInvalid(input[p]) => invoked[p] = 0

\* C6 amended: kdvv and kdvv_wrapper validate nothing themselves.  A call
\* stops before the transform only when the marshalling raises (M < 0, an
\* empty tvec, len(u) neither D nor 1); every other call, invalid
\* configuration or not, invokes the transform once and returns.
C6_OnlyMarshallingStops ==
    \A p \in Calls :
        /\ pc[p] = "raised" => MarshalError(input[p]) /\ invoked[p] = 0
        /\ MarshalError(input[p]) => invoked[p] = 0
        /\ pc[p] \in {"incall", "ret", "returned"} => invoked[p] = 1
        /\ Finished(p) => rdict[p].return_value = clib_rv[p]

C6_Witness ==
    \E p \in Calls :
        /\ Finished(p)
        /\ CallD(input[p]) < 2
        /\ ~TimeOrdered(input[p])
        /\ ~(input[p].Xi1 < input[p].Xi2)
        /\ input[p].M = 0
        /\ invoked[p] = 1

\* C7: once the transform has handed back a status, zero or not, the wrapper
\* raises nothing and returns a record with exactly 'return_value', 'cont'
\* and 'options', return_value being that status.
C7_StatusInRecord ==
    \A p \in Calls :
        /\ invoked[p] > 0 => pc[p] # "raised" /\ exc[p] = ""
        /\ Finished(p) =>
              /\ DOMAIN rdict[p] = {"return_value", "cont", "options"}
              /\ rdict[p].return_value = clib_rv[p]
              /\ rdict[p].cont = loc[p].kdvv_cont

C7_Witness ==
    \E p \in Calls :
        /\ Finished(p)
        /\ clib_rv[p] # 0
        /\ rdict[p].return_value = clib_rv[p]

\* C8: at every point of the root search the accepted roots, their norming
\* constants and their residues have the same length, the reported number of
\* bound states, and entry k of each value array is the value of root k; the
\* result record of nsev carries the same pairing.
C8_PairedArrays ==
    /\ Len(bound_states) = bound_states_num
    /\ Cardinality({k \in DOMAIN cand : cand[k].st = "Accepted"}) = bound_states_num
    /\ WantsNorm(ncall.dst) =>
          /\ Len(normconsts) = Len(bound_states)
          /\ \A k \in DOMAIN normconsts :
                normconsts[k] = NormingConstant(bound_states[k])
    /\ WantsRes(ncall.dst) =>
          /\ Len(residues) = Len(bound_states)
          /\ \A k \in DOMAIN residues : residues[k] = Residue(bound_states[k])
    /\ (ncall.st = "returned" /\ HasKey(tmpres, "bound_states")) =>
          /\ tmpres.bound_states_num = Len(tmpres.bound_states)
          /\ HasKey(tmpres, "disc_norm") =>
                /\ Len(tmpres.disc_norm) = Len(tmpres.bound_states)
                /\ \A k \in DOMAIN tmpres.disc_norm :
                      tmpres.disc_norm[k] = NormingConstant(tmpres.bound_states[k])
          /\ HasKey(tmpres, "disc_res") =>
                /\ Len(tmpres.disc_res) = Len(tmpres.bound_states)
                /\ \A k \in DOMAIN tmpres.disc_res :
                      tmpres.disc_res[k] = Residue(tmpres.bound_states[k])

C8_Witness ==
    /\ ncall.st = "returned"
    /\ ncall.dst = 2
    /\ tmpres.bound_states_num = 1
    /\ Len(tmpres.disc_norm) = 1
    /\ Len(tmpres.disc_res) = 1
    /\ \E k \in DOMAIN cand : cand[k].st = "Rejected"

\* the result of one call of kdvv run alone, computed from its input
Alone(i) ==
    LET o == get_kdvv_options(i.dis)
        D == Len(i.u_val)
        out == fnft_kdvv(D, [k \in 1..D |-> <<i.u_val[k], 0>>],
                         <<SetMin(Range(i.tvec)), SetMax(Range(i.tvec))>>,
                         i.M, [k \in 1..i.M |-> <<0, 0>>],
                         <<i.Xi1, i.Xi2>>, o)
    IN  [return_value |-> out.rv, cont |-> out.cont,
         options |-> <<"KdvvOptionsStruct", "discretization", o.discretization>>]

\* the objects call p reads or writes
Owned(p) ==
    {input[p].u, args[p].options, loc[p].clib_kdvv_func, loc[p].kdvv_u,
     loc[p].kdvv_T, loc[p].kdvv_cont, loc[p].kdvv_Xi} \ {0}

\* C9: under every interleaving of two calls of kdvv, each on arrays of its
\* own, no object is used by both calls, each caller's u keeps its value, and
\* the result of each call is the result of that call run alone.
C9_CallsShareNothing ==
    /\ \A p \in Calls : \A q \in Calls \ {p} : Owned(p) \cap Owned(q) = {}
    /\ \A p \in Calls :
          /\ input[p].entry = "kdvv" => heap[input[p].u] = input[p].u_val
          /\ (Finished(p) /\ input[p].entry = "kdvv") =>
                Observed(p) = Alone(input[p])

C9_Witness ==
    /\ \A p \in Calls : Finished(p)
    /\ loc[1].kdvv_cont > loc[2].kdvv_u
    /\ loc[2].kdvv_cont > loc[1].kdvv_u
    /\ Observed(1) # Observed(2)
    /\ input[1].u_val # input[2].u_val
    /\ input[1].M # input[2].M

\* C10: kdvv calls kdvv_wrapper with D = len(u), K = 0, T1 the least and T2
\* the greatest entry of tvec, whatever the order and the length of tvec, so
\* T1 <= T2; everything else is passed on unchanged.
C10_TvecReducedToBounds ==
    \A p \in Calls :
        (input[p].entry = "kdvv" /\ input[p].tvec # <<>> /\ pc[p] # "kdvv") =>
            /\ args[p].D = Len(input[p].u_val)
            /\ args[p].K = 0
            /\ args[p].T1 = SetMin(Range(input[p].tvec))
            /\ args[p].T2 = SetMax(Range(input[p].tvec))
            /\ args[p].T1 <= args[p].T2
            /\ args[p].u = input[p].u
            /\ args[p].M = input[p].M
            /\ args[p].Xi1 = input[p].Xi1
            /\ args[p].Xi2 = input[p].Xi2

C10_Witness ==
    \E p \in Calls :
        /\ input[p].entry = "kdvv"
        /\ Finished(p)
        /\ Len(input[p].tvec) = 2
        /\ input[p].tvec[1] > input[p].tvec[2]
        /\ Len(input[p].tvec) # Len(input[p].u_val)
        /\ args[p].T1 = input[p].tvec[2]
        /\ args[p].T2 = input[p].tvec[1]

====
